---------------------------- MODULE Spec2Model ----------------------------
(***************************************************************************)
(* A model of cam_draw (src/src/main.rs): one run of main(), from the      *)
(* parsed command line to the written output, with the helper functions    *)
(* it calls.                                                               *)
(*                                                                         *)
(* Numbers.  The program computes in f64.  The model computes exactly, on  *)
(* two scales at once, so that both the 1e-6 closing tolerance and the     *)
(* mechanism lengths (d = 64) are represented without overflow:            *)
(*   a Point is [x, y, fx, fy], standing for (x + fx*tick, y + fy*tick),   *)
(*   x, y whole length units and fx, fy a small count of ticks, where one  *)
(*   tick is half the closing tolerance (TolTicks ticks = 1e-6).           *)
(* Rounding of f64 is not modelled.                                        *)
(***************************************************************************)
EXTENDS Integers, Sequences, FiniteSets, TLC

VARIABLES
    args,         \* CmdArgs, as parsed by clap (line 282)
    input,        \* what the input stream holds: "malformed" or a segment sequence
    pc,           \* position of main(): "open", "template", "parse", "segs", "synth", "output", "done"
    result,       \* "running", then how main() ended: "Ok", "Err", "Panic"
    inputRead,    \* TRUE once parse_document has read the input stream
    files,        \* the files created by the run: path -> content written
    stdout,       \* what the run has written to standard output, in order
    segs,         \* the parsed segment sequence (line 303)
    seg_i,        \* index of the next segment of the loop at line 311
    current_pos,  \* line 306
    start,        \* line 307
    curves,       \* the ConcatCurve (line 309): the primitives added, in order
    rot,          \* the next value of the loop variable at line 360
    path1,        \* line 357
    path2,        \* line 358
    prev_pr       \* line 359

vars == <<args, input, pc, result, inputRead, files, stdout, segs, seg_i,
          current_pos, start, curves, rot, path1, path2, prev_pr>>

\* Option<T>: None, or Some(x).
None == <<>>
Some(x) == <<x>>
IsSome(o) == o # <<>>
Unwrap(o) == o[1]

-----------------------------------------------------------------------------
(* Paths (std::path).  A path is [parent, name]: parent is the result of   *)
(* Path::parent(), an Option of a directory string (None for a root or the *)
(* empty path); name is the final component as a sequence of characters,   *)
(* empty when the path has no file name (a root, the empty path, a path    *)
(* ending in "..").                                                        *)

Pth(parent, name) == [parent |-> parent, name |-> name]

\* The path "-": no directory, file name "-".
Dash == Pth(Some(""), <<"-">>)

\* Index of the last "." of a file name, 0 if there is none.
RECURSIVE LastDot(_, _)
LastDot(name, i) ==
    IF i = 0 THEN 0
    ELSE IF name[i] = "." THEN i
    ELSE LastDot(name, i - 1)

\* std::path rsplit_file_at_dot: <<before, after>>, two Options, of the split
\* at the last "."; (Some(name), None) when that "." is the first character.
rsplit_file_at_dot(name) ==
    LET k == LastDot(name, Len(name)) IN
    IF k = 0 THEN <<None, Some(name)>>
    ELSE IF k = 1 THEN <<Some(name), None>>
    ELSE <<Some(SubSeq(name, 1, k - 1)), Some(SubSeq(name, k + 1, Len(name)))>>

\* Path::file_stem: before.or(after); None when there is no file name.
file_stem(path) ==
    IF path.name = <<>> THEN None
    ELSE LET s == rsplit_file_at_dot(path.name) IN
         IF IsSome(s[1]) THEN s[1] ELSE s[2]

\* Path::extension: before.and(after).
extension(path) ==
    IF path.name = <<>> THEN None
    ELSE LET s == rsplit_file_at_dot(path.name) IN
         IF IsSome(s[1]) THEN s[2] ELSE None

\* PathBuf::set_extension: cut the name back to its file stem, then add
\* "." and the extension when the extension is not empty.
set_extension(path, ext) ==
    LET stem == file_stem(path) IN
    IF ~IsSome(stem) THEN path
    ELSE [path EXCEPT !.name = IF ext = <<>> THEN Unwrap(stem)
                                ELSE Unwrap(stem) \o <<".">> \o ext]

\* add_file_suffix (lines 116-130): an Option, None standing for Err.
add_file_suffix(path, suffix) ==
    IF ~IsSome(path.parent) THEN None
    ELSE IF ~IsSome(file_stem(path)) THEN None
    ELSE LET prefix   == Unwrap(file_stem(path))
             ext      == extension(path)
             filename == prefix \o suffix
             filepath == Pth(Some(""), filename)
             withext  == IF IsSome(ext) THEN set_extension(filepath, Unwrap(ext))
                         ELSE filepath
         IN  Some(Pth(path.parent, withext.name))

Suffix1 == <<"_", "1">>
Suffix2 == <<"_", "2">>

-----------------------------------------------------------------------------
(* Points and vectors (paths::coords), exact on two scales.                *)

\* The closing tolerance 1e-6 of line 320, in ticks.
TolTicks == 2

Pt(x, y, fx, fy) == [x |-> x, y |-> y, fx |-> fx, fy |-> fy]
P(x, y) == Pt(x, y, 0, 0)
Origin == P(0, 0)

PAdd(a, b) == Pt(a.x + b.x, a.y + b.y, a.fx + b.fx, a.fy + b.fy)
PSub(a, b) == Pt(a.x - b.x, a.y - b.y, a.fx - b.fx, a.fy - b.fy)

\* A faulty variant of ShorterThanTol: a length of exactly 1e-6 counts as short.
ShorterThanTol_inclusive(v) ==
    /\ v.x = 0
    /\ v.y = 0
    /\ v.fx * v.fx + v.fy * v.fy <= TolTicks * TolTicks

\* v.length() < 1e-6, for a vector whose tick parts are far below one unit.
ShorterThanTol(v) ==
    /\ v.x = 0
    /\ v.y = 0
    /\ v.fx * v.fx + v.fy * v.fy < TolTicks * TolTicks

-----------------------------------------------------------------------------
(* Segments (paths::stepper_context::CurveSegment) as main.rs matches      *)
(* them, and the curve primitives main.rs constructs from them.  A radius  *)
(* is [u, e], standing for u + e * f64::EPSILON; an angle is a whole       *)
(* number of quarter turns.                                                *)

GoTo(p) == [t |-> "GoTo", p |-> p]
LineTo(p) == [t |-> "LineTo", p |-> p]
CloseTo(p) == [t |-> "CloseTo", p |-> p]
CurveTo(p2, c1, c2) == [t |-> "CurveTo", p |-> p2, c1 |-> c1, c2 |-> c2]
Arc(rx, ry, st, en) == [t |-> "Arc", rx |-> rx, ry |-> ry, st |-> st, en |-> en]
Radius(u, e) == [u |-> u, e |-> e]

Line(rel) == [t |-> "Line", rel |-> rel]
Bezier(c1, c2, p2) == [t |-> "Bezier", c1 |-> c1, c2 |-> c2, p2 |-> p2]
CircleSegment(r, st, en) == [t |-> "Circle", r |-> r, st |-> st, en |-> en]

\* (rx - ry).abs() > f64::EPSILON (line 30)
RadiiDiffer(rx, ry) ==
    \/ rx.u # ry.u
    \/ rx.e - ry.e > 1
    \/ ry.e - rx.e > 1

CosQ(q) == CASE q % 4 = 0 -> 1 [] q % 4 = 1 -> 0 [] q % 4 = 2 -> -1 [] OTHER -> 0
SinQ(q) == CASE q % 4 = 0 -> 0 [] q % 4 = 1 -> 1 [] q % 4 = 2 -> 0 [] OTHER -> -1

\* circle.value(circle.length()).0 (line 34): the end of the arc relative to
\* its first point, for the radius's whole part.
CircleEnd(c) ==
    P(c.r.u * (CosQ(c.en) - CosQ(c.st)), c.r.u * (SinQ(c.en) - SinQ(c.st)))

\* A faulty variant of CurveToInfo: both control points taken as absolute.
CurveToInfo_absolute(seg, pos) ==
    Bezier(PSub(seg.c1, pos), PSub(seg.c2, pos), PSub(seg.p, pos))

\* The CurveTo arm of curve_segment_to_info (lines 23-27): the primitive built.
CurveToInfo(seg, pos) ==
    LET rel == PSub(seg.p, pos) IN Bezier(seg.c1, PAdd(rel, seg.c2), rel)

\* curve_segment_to_info (lines 13-40): the Option returned and the value
\* left in *current_pos.
curve_segment_to_info(seg, pos) ==
    CASE seg.t \in {"LineTo", "CloseTo"} ->
           [info |-> Some(Line(PSub(seg.p, pos))), pos |-> seg.p]
      [] seg.t = "CurveTo" ->
           [info |-> Some(CurveToInfo(seg, pos)), pos |-> seg.p]
      [] seg.t = "Arc" ->
           IF RadiiDiffer(seg.rx, seg.ry)
           THEN [info |-> None, pos |-> pos]
           ELSE LET circle == CircleSegment(seg.rx, seg.st, seg.en) IN
                [info |-> Some(circle), pos |-> PAdd(pos, CircleEnd(circle))]
      [] OTHER -> [info |-> None, pos |-> pos]

-----------------------------------------------------------------------------
(* Output.  What is written is a sequence of tokens, one per write of the  *)
(* program; a world is [files, stdout, ok]: the files created so far, what *)
(* standard output holds, and whether every `?` so far passed.             *)

Tok(t) == [t |-> t]

\* svg_prologue (lines 42-56) and svg_epilogue (lines 58-60).
svg_prologue == <<Tok("svg_prologue")>>
svg_epilogue == <<Tok("svg_epilogue")>>

\* One <path> element of the SVG output (lines 395-399, 401-405).
SvgPath(path) == <<[t |-> "svg_path", pts |-> path]>>

\* File::create succeeds (line 64): the model's one read-only directory is
\* "ro", and a path without a file name is no file.
Creatable(filename) == filename.parent # Some("ro") /\ filename.name # <<>>

\* create_output_file (lines 62-74): what the writer returned writes to.
create_output_file(filename) ==
    IF filename # Dash
    THEN IF Creatable(filename) THEN "file" ELSE "err"
    ELSE "stdout"

\* create_output_file followed by the writes of `content` to what it returned.
\* File::create truncates: a file created again holds the new content only.
WriteAll(w, filename, content) ==
    IF ~w.ok THEN w
    ELSE LET out == create_output_file(filename) IN
         CASE out = "stdout" -> [w EXCEPT !.stdout = @ \o content]
           [] out = "file" -> [w EXCEPT !.files = (filename :> content) @@ @]
           [] OTHER -> [w EXCEPT !.ok = FALSE]

\* p * scale (line 144) and p * (radius / p.length()) (lines 145, 232), kept
\* symbolic.
Scaled(p) == [scaled |-> p]
Projected(p) == [projected |-> p]

\* The points of a polyline paired with their predecessors, the first with
\* the last (lines 142-143, 180 and 230-231, 274): <<prev, p>> per point.
RECURSIVE WithPrev(_, _, _)
WithPrev(path, i, prev) ==
    IF i > Len(path) THEN <<>>
    ELSE <<<<prev, path[i]>>>> \o WithPrev(path, i + 1, path[i])

Pairs(path) ==
    IF path = <<>> THEN <<>> ELSE WithPrev(path, 1, path[Len(path)])

RECURSIVE Flatten(_)
Flatten(ss) == IF ss = <<>> THEN <<>> ELSE Head(ss) \o Flatten(Tail(ss))

LdrawQuad(a, b, c, e) == [t |-> "ldraw_quad", v |-> <<a, b, c, e>>]

\* The four face records of one vertex pair (lines 147-178).
LdrawFaces(pr) ==
    LET prev == Scaled(pr[1])
        p == Scaled(pr[2])
        c == Projected(p)
        prev_c == Projected(prev)
    IN <<LdrawQuad(<<prev, 20>>, <<p, 20>>, <<p, 0>>, <<prev, 0>>),
         LdrawQuad(<<prev, 20>>, <<prev_c, 20>>, <<c, 20>>, <<p, 20>>),
         LdrawQuad(<<prev, 0>>, <<prev_c, 0>>, <<c, 0>>, <<p, 0>>),
         LdrawQuad(<<prev_c, 20>>, <<prev_c, 0>>, <<c, 0>>, <<c, 20>>)>>

\* What write_ldraw_file (lines 132-184) writes.
LdrawContent(path) ==
    <<Tok("0 BFC CERTIFY CCW")>>
    \o Flatten([k \in 1..Len(path) |-> LdrawFaces(Pairs(path)[k])])

write_ldraw_file(w, path, filename) == WriteAll(w, filename, LdrawContent(path))

\* write_stl_triangle (lines 197-208): a normal, three vertices, a u16 pad.
write_stl_triangle(normal, v) ==
    <<[t |-> "stl_triangle", normal |-> normal, v |-> v, pad |-> 0]>>

\* write_stl_quad (lines 210-217)
write_stl_quad(normal, v) ==
    write_stl_triangle(normal, <<v[1], v[2], v[3]>>)
    \o write_stl_triangle(normal, <<v[3], v[4], v[1]>>)

\* A faulty variant of StlFaces: the bottom cap, commented out at lines 254-264, is
\* written too.
StlFaces_with_bottom(pr) ==
    LET prev == pr[1]
        p == pr[2]
        c == Projected(p)
        prev_c == Projected(prev)
    IN write_stl_quad(<<p, 0>>, <<<<prev, 0>>, <<p, 0>>, <<p, 8>>, <<prev, 8>>>>)
       \o write_stl_quad(<<Origin, 1>>,
                         <<<<p, 8>>, <<c, 8>>, <<prev_c, 8>>, <<prev, 8>>>>)
       \o write_stl_quad(<<Origin, -1>>,
                         <<<<prev_c, 0>>, <<prev, 0>>, <<p, 0>>, <<c, 0>>>>)

\* The two quadrilaterals of one vertex pair (lines 232-253).
StlFaces(pr) ==
    LET prev == pr[1]
        p == pr[2]
        c == Projected(p)
        prev_c == Projected(prev)
    IN write_stl_quad(<<p, 0>>, <<<<prev, 0>>, <<p, 0>>, <<p, 8>>, <<prev, 8>>>>)
       \o write_stl_quad(<<Origin, 1>>,
                         <<<<p, 8>>, <<c, 8>>, <<prev_c, 8>>, <<prev, 8>>>>)

\* What write_stl_file (lines 218-279) writes: the header of 80 zero bytes,
\* the count, the triangle records.  (`as u32` cuts the count to 32 bits; the
\* model's polylines are far shorter.  A write that fails after the file was
\* created is not modelled.)
StlContent(path) ==
    <<[t |-> "stl_header", bytes |-> 80, fill |-> 0],
      [t |-> "stl_count", bytes |-> 4, n |-> Len(path) * (2 * 2)]>>
    \o Flatten([k \in 1..Len(path) |-> StlFaces(Pairs(path)[k])])

write_stl_file(w, path, filename) == WriteAll(w, filename, StlContent(path))

-----------------------------------------------------------------------------
(* The mechanism (lines 347-355) and one step of linkage synthesis.        *)

\* The number of steps of one turn (line 347 sets 400; the model takes a
\* small number of steps).
full_turn == 3

lu == 8
d == 8 * lu

\* d * d - b * b >= 0 for b = p10.length() * 0.5 (lines 365-366): the square
\* root at line 366 has a real value.
InReach(p10) ==
    LET w == p10.x * p10.x + p10.y * p10.y
        cross == p10.x * p10.fx + p10.y * p10.fy
    IN \/ w < 4 * d * d
       \/ /\ w = 4 * d * d
          /\ \/ cross < 0
             \/ cross = 0 /\ p10.fx = 0 /\ p10.fy = 0

\* The end of a primitive relative to its first point.
EndOf(info) ==
    CASE info.t = "Line" -> info.rel
      [] info.t = "Bezier" -> info.p2
      [] OTHER -> CircleEnd(info)

\* The points where the primitives of a composite curve join, from its first
\* point (the local origin) to its last.
RECURSIVE Joints(_, _, _)
Joints(cs, i, at) ==
    IF i > Len(cs) THEN {at}
    ELSE {at} \cup Joints(cs, i + 1, PAdd(at, EndOf(cs[i])))

\* curves.value(pos).0 (line 362), of paths::curves::concat_curve: a point
\* of the composite curve, relative to its first point.  The model samples
\* the curve at its joints only, any of them at any step; a curve without
\* primitives is sampled at its origin.
CurveValues(cs) == Joints(cs, 1, Origin)

\* The raw profile points p2r and p3r of a step (lines 363-379), symbolic:
\* the step, the translated cam point, and whether the coordinates are
\* numbers (they are NaN when the square root at line 366 is of a negative).
RawPair(r, p10) ==
    <<[arm |-> "ccw", rot |-> r, p10 |-> p10, finite |-> InReach(p10)],
      [arm |-> "cw", rot |-> r, p10 |-> p10, finite |-> InReach(p10)]>>

\* The interpolated point pushed at a step (lines 383-388), symbolic: NaN
\* when either raw point is.
Interpolated(prev, cur) ==
    [arm |-> cur.arm, rot |-> cur.rot, finite |-> prev.finite /\ cur.finite]

\* A faulty variant of PushInterpolated: a point is pushed at the first step too.
PushInterpolated_every_step(path, prev, cur) ==
    IF IsSome(prev) THEN Append(path, Interpolated(Unwrap(prev), cur))
    ELSE Append(path, Interpolated(cur, cur))

\* Lines 381-389, for one of the two polylines: a point is pushed when there
\* is a previous raw point.
PushInterpolated(path, prev, cur) ==
    IF IsSome(prev) THEN Append(path, Interpolated(Unwrap(prev), cur))
    ELSE path

\* The previous raw point of arm k (1: p2r, 2: p3r), an Option.
PrevRaw(pp, k) == IF IsSome(pp) THEN Some(Unwrap(pp)[k]) ELSE None

IsFinite(path) == \A k \in 1..Len(path) : path[k].finite

-----------------------------------------------------------------------------
(* The run of main() (lines 281-416).                                      *)

InFile == Pth(Some(""), <<"i">>)
MissingFile == Pth(Some(""), <<"x">>)

\* File::open succeeds (line 285).
Openable(path) == path = InFile

World == [files |-> files, stdout |-> stdout, ok |-> TRUE]

Finish(w) ==
    /\ files' = w.files
    /\ stdout' = w.stdout
    /\ result' = IF w.ok THEN "Ok" ELSE "Err"
    /\ pc' = "done"

\* Lines 283-293: the input is opened, or standard input taken.
OpenInput ==
    /\ pc = "open"
    /\ IF IsSome(args.svg_file) /\ ~Openable(Unwrap(args.svg_file))
       THEN pc' = "done" /\ result' = "Err"
       ELSE pc' = "template" /\ result' = result
    /\ UNCHANGED <<args, input, inputRead, files, stdout, segs, seg_i,
                   current_pos, start, curves, rot, path1, path2, prev_pr>>

\* Lines 295-300: the template is written and the run ends.
WriteTemplate ==
    /\ pc = "template"
    /\ IsSome(args.svg_template)
    /\ Finish(WriteAll(World, Unwrap(args.svg_template),
                       svg_prologue \o svg_epilogue))
    /\ UNCHANGED <<args, input, inputRead, segs, seg_i,
                   current_pos, start, curves, rot, path1, path2, prev_pr>>

\* Lines 302-309: the document is parsed (a failure panics in unwrap), the
\* segments are printed, the loop's variables are set.
ParseDocument ==
    /\ pc = "template"
    /\ ~IsSome(args.svg_template)
    /\ inputRead' = TRUE
    /\ IF input.ok
       THEN /\ segs' = input.segs
            /\ stdout' = stdout \o <<Tok("debug_segs")>>
            /\ pc' = "segs"
            /\ result' = result
       ELSE /\ pc' = "done"
            /\ result' = "Panic"
            /\ UNCHANGED <<segs, stdout>>
    /\ current_pos' = Origin
    /\ start' = Origin
    /\ curves' = <<>>
    /\ seg_i' = 1
    /\ UNCHANGED <<args, input, files, rot, path1, path2, prev_pr>>

\* Lines 311-345: one turn of the segment loop.  (The values of info.value at
\* lines 326 and 336 are not used.)
SegStep ==
    /\ pc = "segs"
    /\ seg_i <= Len(segs)
    /\ LET seg == segs[seg_i] IN
       \/ /\ seg.t = "GoTo"
          /\ current_pos' = seg.p
          /\ start' = seg.p
          /\ UNCHANGED <<curves, pc, result>>
       \/ /\ seg.t = "CloseTo"
          /\ ShorterThanTol(PSub(current_pos, seg.p))
          /\ current_pos' = seg.p
          /\ UNCHANGED <<start, curves, pc, result>>
       \/ /\ seg.t # "GoTo"
          /\ ~(seg.t = "CloseTo" /\ ShorterThanTol(PSub(current_pos, seg.p)))
          /\ LET r == curve_segment_to_info(seg, current_pos) IN
             /\ IsSome(r.info)
             /\ current_pos' = r.pos
             /\ curves' = Append(curves, Unwrap(r.info))
          /\ UNCHANGED <<start, pc, result>>
       \/ /\ seg.t # "GoTo"
          /\ ~(seg.t = "CloseTo" /\ ShorterThanTol(PSub(current_pos, seg.p)))
          /\ ~IsSome(curve_segment_to_info(seg, current_pos).info)
          /\ pc' = "done"
          /\ result' = "Panic"
          /\ UNCHANGED <<current_pos, start, curves>>
    /\ seg_i' = seg_i + 1
    /\ UNCHANGED <<args, input, inputRead, files, stdout, segs,
                   rot, path1, path2, prev_pr>>

\* Lines 346-359: the loop has ended; the curve is printed and the
\* synthesis's variables are set.
SegsDone ==
    /\ pc = "segs"
    /\ seg_i > Len(segs)
    /\ stdout' = stdout \o <<Tok("debug_curves")>>
    /\ pc' = "synth"
    /\ rot' = 0
    /\ path1' = <<>>
    /\ path2' = <<>>
    /\ prev_pr' = None
    /\ UNCHANGED <<args, input, result, inputRead, files, segs, seg_i,
                   current_pos, start, curves>>

\* Lines 360-391: one step of the synthesis.
SynthStep ==
    /\ pc = "synth"
    /\ rot <= full_turn
    /\ \E p1 \in CurveValues(curves) :
         LET p10 == PAdd(PAdd(p1, P(d, 0)), start)
             pr == RawPair(rot, p10)
         IN /\ path1' = PushInterpolated(path1, PrevRaw(prev_pr, 1), pr[1])
            /\ path2' = PushInterpolated(path2, PrevRaw(prev_pr, 2), pr[2])
            /\ prev_pr' = Some(pr)
    /\ rot' = rot + 1
    /\ UNCHANGED <<args, input, pc, result, inputRead, files, stdout, segs,
                   seg_i, current_pos, start, curves>>

\* A faulty variant of OutputWorld: every output given is written, not only the
\* first.
OutputWorld_every_given(w) ==
    LET w1 == IF IsSome(args.svg_output)
              THEN WriteAll(w, Unwrap(args.svg_output),
                            svg_prologue \o SvgPath(path1) \o SvgPath(path2)
                            \o svg_epilogue)
              ELSE w
        w2 == IF IsSome(args.ldraw_output)
                 /\ IsSome(add_file_suffix(Unwrap(args.ldraw_output), Suffix1))
              THEN write_ldraw_file(
                       write_ldraw_file(w1, path1,
                           Unwrap(add_file_suffix(Unwrap(args.ldraw_output), Suffix1))),
                       path2,
                       Unwrap(add_file_suffix(Unwrap(args.ldraw_output), Suffix2)))
              ELSE w1
    IN IF IsSome(args.stl_output)
          /\ IsSome(add_file_suffix(Unwrap(args.stl_output), Suffix1))
       THEN write_stl_file(
                write_stl_file(w2, path1,
                    Unwrap(add_file_suffix(Unwrap(args.stl_output), Suffix1))),
                path2,
                Unwrap(add_file_suffix(Unwrap(args.stl_output), Suffix2)))
       ELSE w2

\* The world after the branch of lines 392-414 that the arguments select.
OutputWorld(w) ==
    IF IsSome(args.svg_output)
    THEN WriteAll(w, Unwrap(args.svg_output),
                  svg_prologue \o SvgPath(path1) \o SvgPath(path2) \o svg_epilogue)
    ELSE IF IsSome(args.ldraw_output)
    THEN LET f1 == add_file_suffix(Unwrap(args.ldraw_output), Suffix1)
             f2 == add_file_suffix(Unwrap(args.ldraw_output), Suffix2)
         IN IF ~IsSome(f1) THEN [w EXCEPT !.ok = FALSE]
            ELSE LET w1 == write_ldraw_file(w, path1, Unwrap(f1)) IN
                 IF ~w1.ok THEN w1
                 ELSE IF ~IsSome(f2) THEN [w1 EXCEPT !.ok = FALSE]
                 ELSE write_ldraw_file(w1, path2, Unwrap(f2))
    ELSE IF IsSome(args.stl_output)
    THEN LET f1 == add_file_suffix(Unwrap(args.stl_output), Suffix1)
             f2 == add_file_suffix(Unwrap(args.stl_output), Suffix2)
         IN IF ~IsSome(f1) THEN [w EXCEPT !.ok = FALSE]
            ELSE LET w1 == write_stl_file(w, path1, Unwrap(f1)) IN
                 IF ~w1.ok THEN w1
                 ELSE IF ~IsSome(f2) THEN [w1 EXCEPT !.ok = FALSE]
                 ELSE write_stl_file(w1, path2, Unwrap(f2))
    ELSE w

\* Lines 392-415: the synthesis has ended; the output is written.
WriteOutput ==
    /\ pc = "synth"
    /\ rot > full_turn
    /\ Finish(OutputWorld(World))
    /\ UNCHANGED <<args, input, inputRead, segs, seg_i,
                   current_pos, start, curves, rot, path1, path2, prev_pr>>

Next ==
    \/ OpenInput
    \/ WriteTemplate
    \/ ParseDocument
    \/ SegStep
    \/ SegsDone
    \/ SynthStep
    \/ WriteOutput

-----------------------------------------------------------------------------
(* The inputs of a run: the command line, the file system, the document.   *)

\* The longest document, in segments, and the longest file name, in
\* characters, that the model draws.
MaxSegs == 2
MaxName == 5

\* Sequences over S of length at most n.
RECURSIVE SeqsUpTo(_, _)
SeqsUpTo(S, n) ==
    IF n = 0 THEN {<<>>}
    ELSE LET shorter == SeqsUpTo(S, n - 1) IN
         shorter \cup {Append(q, x) : q \in {r \in shorter : Len(r) = n - 1}, x \in S}

Doc(ss) == [ok |-> TRUE, segs |-> ss]
Malformed == [ok |-> FALSE, segs |-> <<>>]

OutFile == Pth(Some(""), <<"o", ".", "e">>)
ReadOnlyFile == Pth(Some("ro"), <<"o", ".", "e">>)

NoArgs ==
    [svg_file |-> None, svg_output |-> None, ldraw_output |-> None,
     stl_output |-> None, svg_template |-> None]

\* An arc of unequal radii, and arcs whose radii are equal to within EPSILON.
EllipseArc == Arc(Radius(1, 0), Radius(2, 0), 0, 2)
NearEllipseArc == Arc(Radius(1, 0), Radius(1, 2), 0, 2)
CircleArc == Arc(Radius(1, 0), Radius(1, 1), 0, 2)

\* Command lines: every combination of the five arguments.
ArgChoices ==
    [svg_file : {None, Some(InFile), Some(MissingFile)},
     svg_output : {None, Some(Dash), Some(OutFile), Some(ReadOnlyFile)},
     ldraw_output : {None, Some(Dash), Some(OutFile)},
     stl_output : {None, Some(Dash), Some(OutFile)},
     svg_template : {None, Some(Dash), Some(OutFile), Some(ReadOnlyFile)}]

\* A few documents for them: unparsable, empty, a path within the linkage's
\* reach, one that leaves it, one with an ellipse.
DocChoices ==
    {Malformed,
     Doc(<<>>),
     Doc(<<GoTo(P(1, 0)), LineTo(P(1, 1))>>),
     Doc(<<LineTo(P(65, 0))>>),
     Doc(<<LineTo(P(1, 1)), EllipseArc>>)}

\* Documents: every sequence of at most MaxSegs of these segments on a grid
\* around the closing tolerance.
GridPoints == {Origin, Pt(0, 0, 1, 1), Pt(0, 0, 2, 0), P(1, 0)}
CtrlPoints == {P(1, 0), P(0, 1)}
SegChoices ==
    {GoTo(p) : p \in GridPoints}
    \cup {LineTo(p) : p \in {Origin, P(1, 0), P(64, 0)}}
    \cup {CloseTo(p) : p \in GridPoints}
    \cup {CurveTo(p2, c1, c2) : p2 \in {P(1, 0), P(1, 1)}, c1 \in CtrlPoints,
                                c2 \in CtrlPoints}
    \cup {EllipseArc, NearEllipseArc, CircleArc}

\* File names: every name of at most MaxName characters, but "." and "..",
\* which are no file names, and "-"; in no directory or in a directory.
NameChoices ==
    ({n \in SeqsUpTo({"a", "."}, MaxName) : n # <<>>}
     \ {<<".">>, <<".", ".">>})
    \cup {<<"-">>}
PathChoices ==
    {Pth(Some(dir), n) : dir \in {"", "out"}, n \in NameChoices}
    \cup {Pth(None, <<>>), Pth(Some(""), <<>>)}

Init ==
    /\ \/ /\ args \in ArgChoices
          /\ input \in DocChoices
       \/ /\ args \in {[NoArgs EXCEPT !.svg_output = Some(OutFile)]}
          /\ input \in {Doc(ss) : ss \in SeqsUpTo(SegChoices, MaxSegs)}
       \/ /\ args \in {[NoArgs EXCEPT !.ldraw_output = Some(f)] : f \in PathChoices}
                      \cup {[NoArgs EXCEPT !.stl_output = Some(f)] : f \in PathChoices}
          /\ input \in {Doc(<<GoTo(P(1, 0)), LineTo(P(1, 1))>>)}
    /\ pc = "open"
    /\ result = "running"
    /\ inputRead = FALSE
    /\ files = <<>>
    /\ stdout = <<>>
    /\ segs = <<>>
    /\ seg_i = 1
    /\ current_pos = Origin
    /\ start = Origin
    /\ curves = <<>>
    /\ rot = 0
    /\ path1 = <<>>
    /\ path2 = <<>>
    /\ prev_pr = None

Spec == Init /\ [][Next]_vars

-----------------------------------------------------------------------------
(* write_stl_file on its own: any polyline, any destination.               *)

\* The longest polyline, in points, handed to write_stl_file.
MaxPoints == 4

PolyPoints ==
    {[arm |-> "ccw", rot |-> r, finite |-> TRUE] : r \in 1..2}
    \cup {[arm |-> "ccw", rot |-> 3, finite |-> FALSE]}

InitStl ==
    /\ args \in {[NoArgs EXCEPT !.stl_output = Some(f)] :
                    f \in {Dash, OutFile, ReadOnlyFile}}
    /\ path1 \in SeqsUpTo(PolyPoints, MaxPoints)
    /\ pc = "stl"
    /\ result = "running"
    /\ input = Malformed
    /\ inputRead = FALSE
    /\ files = <<>>
    /\ stdout = <<>>
    /\ segs = <<>>
    /\ seg_i = 1
    /\ current_pos = Origin
    /\ start = Origin
    /\ curves = <<>>
    /\ rot = 0
    /\ path2 = <<>>
    /\ prev_pr = None

\* One call of write_stl_file (lines 218-279) on path1.
WriteStl ==
    /\ pc = "stl"
    /\ Finish(write_stl_file(World, path1, Unwrap(args.stl_output)))
    /\ UNCHANGED <<args, input, inputRead, segs, seg_i,
                   current_pos, start, curves, rot, path1, path2, prev_pr>>

NextStl == WriteStl

SpecStl == InitStl /\ [][NextStl]_vars

-----------------------------------------------------------------------------
(* What the run has written, by format.                                    *)

HasTok(content, t) == \E k \in 1..Len(content) : content[k].t = t

FormatsIn(content) ==
    (IF HasTok(content, "svg_prologue") THEN {"svg"} ELSE {})
    \cup (IF HasTok(content, "0 BFC CERTIFY CCW") THEN {"ldraw"} ELSE {})
    \cup (IF HasTok(content, "stl_header") THEN {"stl"} ELSE {})

Written ==
    FormatsIn(stdout) \cup UNION {FormatsIn(files[f]) : f \in DOMAIN files}

\* The format the arguments select: the first given of -o, -l, -s.
Selected ==
    IF IsSome(args.svg_output) THEN {"svg"}
    ELSE IF IsSome(args.ldraw_output) THEN {"ldraw"}
    ELSE IF IsSome(args.stl_output) THEN {"stl"}
    ELSE {}

-----------------------------------------------------------------------------
(* C1: without the template flag, whatever combination of -o, -l and -s is *)
(* given, no format other than the first given one (in the order -o, -l,   *)
(* -s) is ever written; a run that ends successfully has written exactly   *)
(* that format; and with none of the three given no file is created.       *)
C1_FirstGivenOutputWins ==
    ~IsSome(args.svg_template) =>
        /\ Written \subseteq Selected
        /\ (pc = "done" /\ result = "Ok" => Written = Selected)
        /\ (Selected = {} => DOMAIN files = {})

\* A run given all three output flags has ended well, with the SVG only.
C1_Witness ==
    /\ pc = "done"
    /\ result = "Ok"
    /\ ~IsSome(args.svg_template)
    /\ IsSome(args.svg_output)
    /\ IsSome(args.ldraw_output)
    /\ IsSome(args.stl_output)
    /\ Written = {"svg"}

(* C2: with --svg-template given (and its destination creatable), whatever *)
(* the state of the input argument, the run ends successfully having       *)
(* written exactly prologue + epilogue to the template destination, having *)
(* read no input, converted no segment and synthesised nothing.            *)
C2_TemplateWhateverTheInput ==
    (/\ pc = "done"
     /\ IsSome(args.svg_template)
     /\ create_output_file(Unwrap(args.svg_template)) # "err")
    => /\ result = "Ok"
       /\ IF Unwrap(args.svg_template) = Dash
          THEN stdout = svg_prologue \o svg_epilogue
          ELSE /\ DOMAIN files = {Unwrap(args.svg_template)}
               /\ files[Unwrap(args.svg_template)] = svg_prologue \o svg_epilogue
       /\ ~inputRead
       /\ curves = <<>>
       /\ path1 = <<>>
       /\ path2 = <<>>

(* C3: the synthesis takes a raw sample at every step 0..full_turn, pushes *)
(* no point at step 0 and one point to each polyline at every later step   *)
(* (the k-th point of a polyline is the one interpolated at step k): the   *)
(* two polylines always have the same length, which is i after step i,     *)
(* hence full_turn once the loop has ended.                                *)
C3_OnePointPerPair ==
    /\ Len(path1) = Len(path2)
    /\ Len(path1) = (IF rot = 0 THEN 0 ELSE rot - 1)
    /\ (rot >= 1 => IsSome(prev_pr) /\ prev_pr[1][1].rot = rot - 1)
    /\ \A k \in 1..Len(path1) :
         /\ path1[k].rot = k /\ path1[k].arm = "ccw"
         /\ path2[k].rot = k /\ path2[k].arm = "cw"
    /\ (pc = "done" /\ result = "Ok" /\ ~IsSome(args.svg_template)
            => Len(path1) = full_turn)

\* The loop has run to its end and the run has ended.
C3_Witness ==
    /\ pc = "done"
    /\ result = "Ok"
    /\ rot = full_turn + 1
    /\ Len(path1) = full_turn
    /\ Len(path1) > 1

\* The index of the first segment of the document that the conversion cannot
\* represent: an arc of unequal radii.  0 if there is none.
RECURSIVE FirstUnsupported(_, _)
FirstUnsupported(ss, i) ==
    IF i > Len(ss) THEN 0
    ELSE IF ss[i].t = "Arc"
            /\ (ss[i].rx.u # ss[i].ry.u
                \/ ss[i].rx.e - ss[i].ry.e > 1
                \/ ss[i].ry.e - ss[i].rx.e > 1)
         THEN i
    ELSE FirstUnsupported(ss, i + 1)

(* C4: a document with an arc of unequal radii is fatal with no partial    *)
(* output: the run ends at that segment, nothing is synthesised, no file   *)
(* is created and nothing is emitted on standard output.                   *)
C4_UnsupportedSegmentNoOutput ==
    (pc = "done" /\ input.ok /\ inputRead /\ FirstUnsupported(input.segs, 1) > 0)
    => /\ result = "Panic"
       /\ seg_i = FirstUnsupported(input.segs, 1) + 1
       /\ path1 = <<>>
       /\ path2 = <<>>
       /\ prev_pr = None
       /\ DOMAIN files = {}
       /\ stdout = <<>>

(* C5: in the segment loop a CloseTo whose target is within 1e-6 of the    *)
(* cursor adds no primitive (the cursor moves to the target, the subpath   *)
(* start stays), and a CloseTo whose target is at 1e-6 or more adds        *)
(* exactly one Line, from the cursor to the target; so the Line a CloseTo  *)
(* adds never has length zero.                                             *)
C5_ShortCloseElided ==
    [][(pc = "segs" /\ seg_i <= Len(segs) /\ segs[seg_i].t = "CloseTo") =>
         LET target == segs[seg_i].p
             dx == current_pos.x - target.x
             dy == current_pos.y - target.y
             dfx == current_pos.fx - target.fx
             dfy == current_pos.fy - target.fy
             near == dx = 0 /\ dy = 0 /\ dfx * dfx + dfy * dfy < 4
         IN /\ current_pos' = target
            /\ start' = start
            /\ near => curves' = curves
            /\ ~near => /\ curves' = Append(curves, Line(Pt(-dx, -dy, -dfx, -dfy)))
                        /\ curves'[Len(curves')].rel # Origin
      ]_vars

\* A CloseTo to a target near the cursor, but not at it, has been skipped:
\* the cursor is at the target, the subpath start is where the GoTo put it,
\* and the composite curve is empty.
C5_Witness ==
    /\ pc = "segs"
    /\ seg_i = 3
    /\ segs[1].t = "GoTo"
    /\ segs[2].t = "CloseTo"
    /\ segs[1].p # segs[2].p
    /\ current_pos = segs[2].p
    /\ start = segs[1].p
    /\ curves = <<>>

\* The output the arguments select is given as "-".
SelectedIsDash ==
    IF IsSome(args.svg_template) THEN args.svg_template = Some(Dash)
    ELSE IF IsSome(args.svg_output) THEN args.svg_output = Some(Dash)
    ELSE IF IsSome(args.ldraw_output) THEN args.ldraw_output = Some(Dash)
    ELSE args.stl_output = Some(Dash)

(* C6: whichever of --svg-template, -o, -l, -s is given the value "-", the *)
(* output it selects goes to standard output and no file is created.       *)
C6_DashIsStdout ==
    (pc = "done" /\ result = "Ok" /\ SelectedIsDash)
    => /\ DOMAIN files = {}
       /\ IF IsSome(args.svg_template) THEN HasTok(stdout, "svg_prologue")
          ELSE FormatsIn(stdout) = Selected

(* C7: for a -l or -s destination with a parent and a stem, the two files  *)
(* written are named by the destination's stem followed by _1 and _2, in   *)
(* the destination's directory and with its extension; the two paths       *)
(* differ, and after the run the first holds the first follower curve and  *)
(* the second the second (the second does not overwrite the first).        *)
(* Stated for the destinations whose name does not end in ".".             *)
C7_TwoSuffixedFiles ==
    (/\ pc = "done"
     /\ result = "Ok"
     /\ ~IsSome(args.svg_template)
     /\ Selected \in {{"ldraw"}, {"stl"}}
     /\ extension(IF Selected = {"ldraw"} THEN Unwrap(args.ldraw_output)
                  ELSE Unwrap(args.stl_output)) # Some(<<>>))
    => LET f == IF Selected = {"ldraw"} THEN Unwrap(args.ldraw_output)
                ELSE Unwrap(args.stl_output)
           f1 == add_file_suffix(f, Suffix1)
           f2 == add_file_suffix(f, Suffix2)
       IN /\ IsSome(f1) /\ IsSome(f2)
          /\ Unwrap(f1).parent = f.parent
          /\ Unwrap(f2).parent = f.parent
          /\ extension(Unwrap(f1)) = extension(f)
          /\ extension(Unwrap(f2)) = extension(f)
          /\ file_stem(Unwrap(f1)) = Some(Unwrap(file_stem(f)) \o Suffix1)
          /\ file_stem(Unwrap(f2)) = Some(Unwrap(file_stem(f)) \o Suffix2)
          /\ Unwrap(f1) # Unwrap(f2)
          /\ DOMAIN files = {Unwrap(f1), Unwrap(f2)}
          /\ files[Unwrap(f1)] = (IF Selected = {"ldraw"} THEN LdrawContent(path1)
                                  ELSE StlContent(path1))
          /\ files[Unwrap(f2)] = (IF Selected = {"ldraw"} THEN LdrawContent(path2)
                                  ELSE StlContent(path2))

\* What write_stl_file wrote, once it has returned Ok: the content of the
\* file, or of standard output for "-".
StlWritten ==
    IF Unwrap(args.stl_output) = Dash THEN stdout
    ELSE files[Unwrap(args.stl_output)]

\* The predecessor of point j of a closed polyline.
PrevPoint(path, j) == IF j = 1 THEN path[Len(path)] ELSE path[j - 1]

(* C8: for a polyline of n points (n >= 0), write_stl_file writes an       *)
(* 80-byte header, then a 32-bit count equal to 2*2*n, then exactly that   *)
(* many triangle records, each a normal, three vertices and a zero pad;    *)
(* point j contributes records 4j-3 .. 4j, built from the point and its    *)
(* predecessor (for the first point, the last).                            *)
C8_StlCountMatchesRecords ==
    (pc = "done" /\ result = "Ok") =>
        LET c == StlWritten
            n == Len(path1)
        IN /\ Len(c) >= 2
           /\ c[1] = [t |-> "stl_header", bytes |-> 80, fill |-> 0]
           /\ c[2] = [t |-> "stl_count", bytes |-> 4, n |-> 2 * 2 * n]
           /\ Len(c) - 2 = c[2].n
           /\ \A k \in 3..Len(c) :
                /\ c[k].t = "stl_triangle"
                /\ Len(c[k].v) = 3
                /\ c[k].pad = 0
           /\ \A j \in 1..n :
                LET p == path1[j]
                    prev == PrevPoint(path1, j)
                    wall == {<<prev, 0>>, <<p, 0>>, <<p, 8>>, <<prev, 8>>}
                    cap == {<<p, 8>>, <<Projected(p), 8>>,
                            <<Projected(prev), 8>>, <<prev, 8>>}
                    rec(i) == c[2 + 4 * (j - 1) + i]
                    corners(i) == {rec(i).v[m] : m \in 1..3}
                IN /\ 2 + 4 * j <= Len(c)
                   /\ corners(1) \cup corners(2) = wall
                   /\ corners(3) \cup corners(4) = cap
                   /\ rec(1).normal = <<p, 0>>
                   /\ rec(2).normal = <<p, 0>>
                   /\ rec(3).normal = <<Origin, 1>>
                   /\ rec(4).normal = <<Origin, 1>>

\* A polyline of several different points has been written to a file.
C8_Witness ==
    /\ pc = "done"
    /\ result = "Ok"
    /\ Len(path1) = 3
    /\ path1[1] # path1[3]
    /\ Unwrap(args.stl_output) # Dash
    /\ Len(files[Unwrap(args.stl_output)]) = 14

(* C9: a sampled cam point out of the linkage's reach is fatal: a run in   *)
(* which some step's square root is of a negative number (so that the      *)
(* points pushed for it are not numbers) does not run on to write its      *)
(* output and end as a success.                                            *)
C9_InfeasibleIsFatal ==
    (pc = "done" /\ result = "Ok" /\ Written # {})
    => IsFinite(path1) /\ IsFinite(path2)

(* C10 as claimed: a CurveTo(end, ctrl1, ctrl2) met with the cursor at c   *)
(* adds the Bezier (ctrl1 - c, ctrl2 - c, end - c) and moves the cursor to *)
(* end.                                                                    *)
C10_ControlPointsRelativeToCursor ==
    [][(pc = "segs" /\ seg_i <= Len(segs) /\ segs[seg_i].t = "CurveTo") =>
         LET seg == segs[seg_i]
             c == current_pos
         IN /\ curves' = Append(curves,
                   [t |-> "Bezier",
                    c1 |-> Pt(seg.c1.x - c.x, seg.c1.y - c.y,
                              seg.c1.fx - c.fx, seg.c1.fy - c.fy),
                    c2 |-> Pt(seg.c2.x - c.x, seg.c2.y - c.y,
                              seg.c2.fx - c.fx, seg.c2.fy - c.fy),
                    p2 |-> Pt(seg.p.x - c.x, seg.p.y - c.y,
                              seg.p.fx - c.fx, seg.p.fy - c.fy)])
            /\ current_pos' = seg.p
      ]_vars

(* C10 as amended: a CurveTo(end, ctrl1, ctrl2) met with the cursor at c   *)
(* adds the Bezier (ctrl1, (end - c) + ctrl2, end - c): the first control  *)
(* point is passed on as given, the second is shifted by the endpoint's    *)
(* offset from the cursor, the endpoint is made relative to the cursor;    *)
(* the cursor then moves to end.                                           *)
C10_CurveToAsBuilt ==
    [][(pc = "segs" /\ seg_i <= Len(segs) /\ segs[seg_i].t = "CurveTo") =>
         LET seg == segs[seg_i]
             c == current_pos
             rel == Pt(seg.p.x - c.x, seg.p.y - c.y,
                       seg.p.fx - c.fx, seg.p.fy - c.fy)
         IN /\ curves' = Append(curves,
                   [t |-> "Bezier",
                    c1 |-> seg.c1,
                    c2 |-> Pt(rel.x + seg.c2.x, rel.y + seg.c2.y,
                              rel.fx + seg.c2.fx, rel.fy + seg.c2.fy),
                    p2 |-> rel])
            /\ current_pos' = seg.p
            /\ start' = start
      ]_vars

\* A CurveTo has been converted with the cursor away from the origin and
\* from the curve's end.
C10_Witness ==
    /\ pc = "segs"
    /\ seg_i = 3
    /\ segs[1].t = "GoTo"
    /\ segs[1].p # Origin
    /\ segs[2].t = "CurveTo"
    /\ segs[2].p # segs[1].p
    /\ Len(curves) = 1
    /\ curves[1].t = "Bezier"
    /\ curves[1].p2 # segs[2].p
    /\ current_pos = segs[2].p

=============================================================================
